---- MODULE Spec2Model ----
(***************************************************************************)
(* Streaming translation of the OpenAI-to-NIM proxy (src/server.js, the    *)
(* final revision of the chat-completions handler, lines 468-668).         *)
(*                                                                         *)
(* Text is modelled at character level: a text is a sequence of one-       *)
(* character strings.  The backend stream is a sequence of bytes; ASCII    *)
(* bytes are written as their character, the two bytes of the UTF-8        *)
(* encoding of U+00E9 are the atoms "xC3" and "xA9".                       *)
(***************************************************************************)
EXTENDS Integers, Sequences, FiniteSets, TLC

----------------------------------------------------------------------------
(* Bounds of the model *)

\* longest backend stream, in lines, that Init enumerates exhaustively
MaxLines == 2
\* longest chunk, in bytes, the transport delivers short of "all that is left"
MaxChunk == 3

Streams == {1, 2}

----------------------------------------------------------------------------
(* Text helpers (String.prototype methods used by the handler) *)

Min(a, b) == IF a < b THEN a ELSE b

\* s.slice(n): the text from 0-based index n on
Slice(t, n) == SubSeq(t, n + 1, Len(t))

\* s.startsWith(p)
StartsWith(t, p) == Len(t) >= Len(p) /\ SubSeq(t, 1, Len(p)) = p

\* s.includes(p)
Includes(t, p) ==
  \E i \in 1..(Len(t) - Len(p) + 1) : SubSeq(t, i, i + Len(p) - 1) = p

\* s.split('\n'): always at least one segment, the last one unterminated
Split(t) ==
  LET nl == {i \in 1..Len(t) : t[i] = "\n"}
      n == Cardinality(nl)
      \* position of the k-th separator; 0 and Len(t) + 1 close the ends
      pos(k) == IF k = 0 THEN 0
                ELSE IF k > n THEN Len(t) + 1
                ELSE CHOOSE i \in nl : Cardinality({j \in nl : j < i}) = k - 1
  IN [k \in 1..(n + 1) |-> SubSeq(t, pos(k - 1) + 1, pos(k) - 1)]

----------------------------------------------------------------------------
(* chunk.toString(): UTF-8 decoding of ONE chunk.  A lead byte whose       *)
(* continuation byte is not in the same chunk, and a continuation byte     *)
(* without its lead byte, each decode to the replacement character.        *)

LeadByte == "xC3"
ContByte == "xA9"
ChunkToString(chunk) ==
  LET n == Len(chunk)
      paired(i) == chunk[i] = LeadByte /\ i < n /\ chunk[i + 1] = ContByte
      dec == [i \in 1..n |->
               IF paired(i) THEN "U+00E9"
               ELSE IF chunk[i] = ContByte /\ i > 1 /\ paired(i - 1) THEN "SKIP"
               ELSE IF chunk[i] \in {LeadByte, ContByte} THEN "U+FFFD"
               ELSE chunk[i]]
  IN SelectSeq(dec, LAMBDA c : c # "SKIP")

----------------------------------------------------------------------------
(* JSON values.  Every value is a record [t, s, items]:                    *)
(*   t = "obj"   items = members, each [t |-> "pair", s |-> key,           *)
(*                                      items |-> <<value>>]               *)
(*   t = "arr"   items = elements                                          *)
(*   t = "str"   s = the text                                              *)
(*   t = "null", t = "undef" (JavaScript undefined)                        *)
(*   t = "num"   n = the integer;  t = "bool"  n = 1 for true, 0 for false *)
(*   t = "func"  a function object (what Object.prototype hands out)       *)

JObj(members) == [t |-> "obj", s |-> <<>>, items |-> members, n |-> 0]
JArr(elems) == [t |-> "arr", s |-> <<>>, items |-> elems, n |-> 0]
JStr(text) == [t |-> "str", s |-> text, items |-> <<>>, n |-> 0]
JNull == [t |-> "null", s |-> <<>>, items |-> <<>>, n |-> 0]
Undefined == [t |-> "undef", s |-> <<>>, items |-> <<>>, n |-> 0]
Pair(k, v) == [t |-> "pair", s |-> k, items |-> <<v>>, n |-> 0]
JNum(k) == [t |-> "num", s |-> <<>>, items |-> <<>>, n |-> k]
JBool(b) == [t |-> "bool", s |-> <<>>, items |-> <<>>, n |-> IF b THEN 1 ELSE 0]
JFunc == [t |-> "func", s |-> <<>>, items |-> <<>>, n |-> 0]

\* JavaScript truthiness of a value
Truthy(v) ==
  CASE v.t = "undef" -> FALSE
    [] v.t = "null" -> FALSE
    [] v.t = "str" -> v.s # <<>>
    [] v.t = "num" -> v.n # 0
    [] v.t = "bool" -> v.n = 1
    [] OTHER -> TRUE

HasKey(v, k) == v.t = "obj" /\ \E i \in 1..Len(v.items) : v.items[i].s = k

\* v[k] for a property name k (undefined when v has no such own property)
Get(v, k) ==
  IF HasKey(v, k)
  THEN LET i == CHOOSE j \in 1..Len(v.items) : v.items[j].s = k
       IN v.items[i].items[1]
  ELSE Undefined

\* v[0]
Index0(v) ==
  CASE v.t = "arr" -> IF v.items = <<>> THEN Undefined ELSE v.items[1]
    [] v.t = "str" -> IF v.s = <<>> THEN Undefined ELSE JStr(<<v.s[1]>>)
    [] OTHER -> Get(v, <<"0">>)

\* v[k] = x: an existing key keeps its position, a new key goes last;
\* on a value that is not a plain object the assignment does not show in
\* the serialized text
Set(v, k, x) ==
  IF v.t # "obj" THEN v
  ELSE IF HasKey(v, k)
       THEN JObj([i \in 1..Len(v.items) |->
                   IF v.items[i].s = k THEN Pair(k, x) ELSE v.items[i]])
       ELSE JObj(Append(v.items, Pair(k, x)))

\* delete v[k]
Delete(v, k) ==
  IF v.t # "obj" THEN v
  ELSE JObj(SelectSeq(v.items, LAMBDA m : m.s # k))

----------------------------------------------------------------------------
(* JSON.parse, for the grammar of objects, arrays, strings (escapes \n,    *)
(* \" and \\) and null, without insignificant white space.  Anything else  *)
(* is a SyntaxError (ok = FALSE).                                          *)

At(t, i) == IF i >= 1 /\ i <= Len(t) THEN t[i] ELSE "EOF"

ParseFail == [ok |-> FALSE, v |-> Undefined, n |-> 0]
ParseOk(v, n) == [ok |-> TRUE, v |-> v, n |-> n]

\* the characters of a string literal from position i (after the opening quote)
RECURSIVE ParseChars(_, _, _)
ParseChars(t, i, acc) ==
  LET c == At(t, i) IN
  IF c = "EOF" \/ c = "\n" THEN ParseFail
  ELSE IF c = "\"" THEN ParseOk(JStr(acc), i + 1)
  ELSE IF c = "\\"
       THEN LET e == At(t, i + 1) IN
            IF e = "n" THEN ParseChars(t, i + 2, Append(acc, "\n"))
            ELSE IF e = "\"" \/ e = "\\" THEN ParseChars(t, i + 2, Append(acc, e))
            ELSE ParseFail
  ELSE ParseChars(t, i + 1, Append(acc, c))

RECURSIVE ParseValue(_, _)
RECURSIVE ParseMembers(_, _, _)
RECURSIVE ParseElements(_, _, _)

ParseValue(t, i) ==
  LET c == At(t, i) IN
  IF c = "{" THEN (IF At(t, i + 1) = "}" THEN ParseOk(JObj(<<>>), i + 2)
                   ELSE ParseMembers(t, i + 1, <<>>))
  ELSE IF c = "[" THEN (IF At(t, i + 1) = "]" THEN ParseOk(JArr(<<>>), i + 2)
                        ELSE ParseElements(t, i + 1, <<>>))
  ELSE IF c = "\"" THEN ParseChars(t, i + 1, <<>>)
  ELSE IF c = "n" /\ SubSeq(t, i, Min(i + 3, Len(t))) = <<"n", "u", "l", "l">>
       THEN ParseOk(JNull, i + 4)
  ELSE ParseFail

ParseMembers(t, i, acc) ==
  IF At(t, i) # "\"" THEN ParseFail
  ELSE LET k == ParseChars(t, i + 1, <<>>) IN
       IF ~k.ok \/ At(t, k.n) # ":" THEN ParseFail
       ELSE LET r == ParseValue(t, k.n + 1) IN
            IF ~r.ok THEN ParseFail
            ELSE LET old == JObj(acc)
                     \* a repeated key keeps its first position, last value
                     new == Set(old, k.v.s, r.v).items
                 IN IF At(t, r.n) = "," THEN ParseMembers(t, r.n + 1, new)
                    ELSE IF At(t, r.n) = "}" THEN ParseOk(JObj(new), r.n + 1)
                    ELSE ParseFail

ParseElements(t, i, acc) ==
  LET r == ParseValue(t, i) IN
  IF ~r.ok THEN ParseFail
  ELSE IF At(t, r.n) = "," THEN ParseElements(t, r.n + 1, Append(acc, r.v))
  ELSE IF At(t, r.n) = "]" THEN ParseOk(JArr(Append(acc, r.v)), r.n + 1)
  ELSE ParseFail

JSONparse(t) ==
  LET r == ParseValue(t, 1) IN
  IF r.ok /\ r.n = Len(t) + 1 THEN r ELSE ParseFail

----------------------------------------------------------------------------
(* Numbers and booleans as text *)

RECURSIVE Digits(_)
Digits(k) ==
  LET Digit(d) == <<"0","1","2","3","4","5","6","7","8","9">>[d + 1]
  IN IF k < 10 THEN <<Digit(k)>> ELSE Digits(k \div 10) \o <<Digit(k % 10)>>

\* the decimal text of an integer
NumText(k) == IF k < 0 THEN <<"-">> \o Digits(0 - k) ELSE Digits(k)

BoolText(k) == IF k = 1 THEN <<"t","r","u","e">> ELSE <<"f","a","l","s","e">>

----------------------------------------------------------------------------
(* JSON.stringify *)

RECURSIVE Escape(_)
Escape(s) ==
  IF s = <<>> THEN <<>>
  ELSE (IF Head(s) = "\n" THEN <<"\\", "n">>
        ELSE IF Head(s) = "\"" \/ Head(s) = "\\" THEN <<"\\", Head(s)>>
        ELSE <<Head(s)>>) \o Escape(Tail(s))

Quote(s) == <<"\"">> \o Escape(s) \o <<"\"">>

RECURSIVE JSONstringify(_)
RECURSIVE StringifyMembers(_, _)
RECURSIVE StringifyElements(_, _)

JSONstringify(v) ==
  CASE v.t = "obj" -> <<"{">> \o StringifyMembers(v.items, TRUE) \o <<"}">>
    [] v.t = "arr" -> <<"[">> \o StringifyElements(v.items, TRUE) \o <<"]">>
    [] v.t = "str" -> Quote(v.s)
    [] v.t = "num" -> NumText(v.n)
    [] v.t = "bool" -> BoolText(v.n)
    [] OTHER -> <<"n", "u", "l", "l">>

\* members whose value is undefined are left out
StringifyMembers(ms, first) ==
  IF ms = <<>> THEN <<>>
  ELSE LET m == Head(ms) IN
       IF m.items[1].t \in {"undef", "func"} THEN StringifyMembers(Tail(ms), first)
       ELSE (IF first THEN <<>> ELSE <<",">>)
            \o Quote(m.s) \o <<":">> \o JSONstringify(m.items[1])
            \o StringifyMembers(Tail(ms), FALSE)

StringifyElements(es, first) ==
  IF es = <<>> THEN <<>>
  ELSE (IF first THEN <<>> ELSE <<",">>) \o JSONstringify(Head(es))
       \o StringifyElements(Tail(es), FALSE)

----------------------------------------------------------------------------
(* Constants of the handler *)

Marker == <<"d","a","t","a",":"," ">>
DoneText == <<"[","D","O","N","E","]">>
OpenDelim == <<"<","t","h","i","n","k",">","\n">>
CloseDelim == <<"<","/","t","h","i","n","k",">","\n","\n">>
KeyChoices == <<"c","h","o","i","c","e","s">>
KeyDelta == <<"d","e","l","t","a">>
KeyReasoning == <<"r","e","a","s","o","n","i","n","g","_","c","o","n","t","e","n","t">>
KeyContent == <<"c","o","n","t","e","n","t">>
NLNL == <<"\n", "\n">>

\* string coercion of a value by the + operator
RECURSIVE Text(_)
RECURSIVE JoinText(_, _)
Text(v) ==
  CASE v.t = "str" -> v.s
    [] v.t = "arr" -> JoinText(v.items, TRUE)
    [] v.t = "obj" -> <<"[","o","b","j","e","c","t"," ","O","b","j","e","c","t","]">>
    [] v.t = "null" -> <<"n","u","l","l">>
    [] v.t = "num" -> NumText(v.n)
    [] v.t = "bool" -> BoolText(v.n)
    [] OTHER -> <<"u","n","d","e","f","i","n","e","d">>
JoinText(es, first) ==
  IF es = <<>> THEN <<>>
  ELSE (IF first THEN <<>> ELSE <<",">>)
       \o (IF Head(es).t \in {"null", "undef"} THEN <<>> ELSE Text(Head(es)))
       \o JoinText(Tail(es), FALSE)

----------------------------------------------------------------------------
(* The reasoning splice on one delta (server.js 541-572).  rs is           *)
(* reasoningStarted, show is SHOW_REASONING.                               *)

\* mutation: the opening delimiter is written for every reasoning text
OpensAlways(reasoning, rs) == Truthy(reasoning)

\* if (reasoning && !reasoningStarted)
OpensReasoning(reasoning, rs) == Truthy(reasoning) /\ ~rs

\* mutation: content never closes the reasoning block
ClosesNever(content, rs) == FALSE

\* if (content && reasoningStarted)
ClosesReasoning(content, rs) == Truthy(content) /\ rs

\* mutation: the disabled branch leaves the reasoning field in place
DisabledKeepsReasoning(delta, content) ==
  Set(delta, KeyContent, IF Truthy(content) THEN content ELSE JStr(<<>>))

\* the branch for SHOW_REASONING off (565-572)
DisabledDelta(delta, content) ==
  Delete(Set(delta, KeyContent, IF Truthy(content) THEN content ELSE JStr(<<>>)),
         KeyReasoning)

\* mutation: the closing delimiter leaves the splice state as it was
AfterClosingStays(closes, rs) == rs

\* reasoningStarted = false, once the closing delimiter was added (558)
AfterClosing(closes, rs) == IF closes THEN FALSE ELSE rs

Splice(delta, rs, show) ==
  LET reasoning == Get(delta, KeyReasoning)
      content == Get(delta, KeyContent)
  IN
  IF show
  THEN LET opens == OpensReasoning(reasoning, rs)
           c1 == IF opens THEN OpenDelim \o Text(reasoning)
                 ELSE IF Truthy(reasoning) THEN Text(reasoning)
                 ELSE <<>>
           rs1 == IF opens THEN TRUE ELSE rs
           closes == ClosesReasoning(content, rs1)
           combinedContent ==
                 IF closes THEN c1 \o CloseDelim \o Text(content)
                 ELSE IF Truthy(content) THEN c1 \o Text(content)
                 ELSE c1
           rs2 == AfterClosing(closes, rs1)
       IN [delta |-> IF combinedContent # <<>>
                     THEN Delete(Set(delta, KeyContent, JStr(combinedContent)),
                                 KeyReasoning)
                     ELSE delta,
           rs |-> rs2]
  ELSE [delta |-> DisabledDelta(delta, content), rs |-> rs]

\* data.choices && data.choices[0] && data.choices[0].delta
HasDelta(data) ==
  LET choices == Get(data, KeyChoices) IN
  /\ Truthy(choices)
  /\ Truthy(Index0(choices))
  /\ Truthy(Get(Index0(choices), KeyDelta))

DeltaOf(data) == Get(Index0(Get(data, KeyChoices)), KeyDelta)

\* data with data.choices[0].delta replaced (the in-place mutation)
WithDelta(data, d) ==
  LET choices == Get(data, KeyChoices)
      first == Set(Index0(choices), KeyDelta, d)
  IN CASE choices.t = "arr" ->
            Set(data, KeyChoices,
                JArr([i \in 1..Len(choices.items) |->
                       IF i = 1 THEN first ELSE choices.items[i]]))
       [] choices.t = "obj" -> Set(data, KeyChoices, Set(choices, <<"0">>, first))
       [] OTHER -> data

----------------------------------------------------------------------------
(* One line of lines.forEach (server.js 531-579): the texts written to     *)
(* the client (none or one) and the new reasoningStarted.                  *)

\* mutation: the catch block also resets the splice state
CatchBlockResets(line, rs) == [writes |-> <<line \o NLNL>>, rs |-> FALSE]

\* the catch block (575-577): the line goes out as it is
CatchBlock(line, rs) == [writes |-> <<line \o NLNL>>, rs |-> rs]

\* mutation: every line is taken for a data line
IsAnyLine(line) == TRUE

\* line.startsWith('data: ')
IsDataLine(line) == StartsWith(line, Marker)

\* the try block (538-574) once JSON.parse has returned p
TryBlock(line, rs, show, p) ==
  \* SyntaxError, or TypeError reading .choices of null: the catch
  IF ~p.ok \/ p.v.t = "null" THEN CatchBlock(line, rs)
  ELSE IF HasDelta(p.v)
       THEN LET sp == Splice(DeltaOf(p.v), rs, show) IN
            [writes |-> <<Marker \o JSONstringify(WithDelta(p.v, sp.delta))
                           \o NLNL>>,
             rs |-> sp.rs]
       ELSE [writes |-> <<Marker \o JSONstringify(p.v) \o NLNL>>,
             rs |-> rs]

TranslateLine(line, rs, show) ==
  IF ~IsDataLine(line) THEN [writes |-> <<>>, rs |-> rs]
  ELSE IF Includes(line, DoneText)   \* line.includes('[DONE]') (533-536)
       THEN [writes |-> <<line \o NLNL>>, rs |-> rs]
  ELSE TryBlock(line, rs, show, JSONparse(Slice(line, 6)))

----------------------------------------------------------------------------
(* Backend streams: lines of the event-stream format, each terminated by   *)
(* the line separator.                                                     *)

FieldReasoning(x) == <<"\"","r","e","a","s","o","n","i","n","g","_","c","o",
      "n","t","e","n","t","\"",":">> \o Quote(x)
FieldContent(x) == <<"\"","c","o","n","t","e","n","t","\"",":">> \o Quote(x)
EventLine(fields) == Marker \o <<"{","\"","c","h","o","i","c","e","s","\"",
      ":","[","{","\"","d","e","l","t","a","\"",":">> \o <<"{">> \o fields
      \o <<"}">> \o <<"}","]","}">>

LineRa == EventLine(FieldReasoning(<<"a">>))
LineRb == EventLine(FieldReasoning(<<"b">>))
LineCc == EventLine(FieldContent(<<"c">>))
LineBoth == EventLine(FieldReasoning(<<"a">>) \o <<",">> \o FieldContent(<<"c">>))
LineEmptyDelta == EventLine(<<>>)
LineNoDelta == Marker \o <<"{","\"","c","h","o","i","c","e","s","\"",":","[","]","}">>
LineDone == Marker \o DoneText
LineBad == Marker \o <<"{","\"","c","h","o","i","c","e","s","\"",":","[","{","\"","d","e","l">>
LineDoneInside == EventLine(FieldReasoning(DoneText))
LineBlank == <<>>
LinePing == <<":"," ","p","i","n","g">>

\* the lines the enumerated streams are made of
Catalogue ==
  <<LineRa, LineCc, LineBoth, (EventLine(FieldReasoning(<<>>) \o <<",">>
        \o FieldContent(<<>>))), LineDone, LineBad, LineBlank>>

\* further streams, given line by line
Scenarios ==
  { <<LineRa, LineRb, LineCc>>,
    <<LineRa, LineBad, LineCc>>,
    <<LinePing, LineCc>>,
    <<LineEmptyDelta>>, <<LineRa, LineEmptyDelta>>,
    <<LineNoDelta>>, <<LineRa, LineNoDelta>>,
    <<LineDoneInside, LineCc>>, <<LineRa, LineDoneInside>>,
    <<(EventLine(<<"\"","c","o","n","t","e","n","t","\"",":","\"",LeadByte,ContByte,"\"">>))>> }

\* TranslateLine tabulated once for the catalogue lines (as decoded from a
\* whole chunk); any other line is translated on the spot
KnownLines == {ChunkToString(l) : l \in ({Catalogue[i] : i \in 1..Len(Catalogue)}
      \cup UNION {{q[i] : i \in 1..Len(q)} : q \in Scenarios})}
LineTable ==
  [l \in KnownLines |-> [rs \in BOOLEAN |-> [show \in BOOLEAN |->
     TranslateLine(l, rs, show)]]]

ProcessLine(line, rs, show) ==
  IF line \in KnownLines THEN LineTable[line][rs][show]
  ELSE TranslateLine(line, rs, show)


\* the callback's state after one more line, r being what the line gave:
\* the writes in order, the new reasoningStarted, and a log entry for the
\* line (the line, reasoningStarted before and after it, and what was
\* written for it)
AfterLine(acc, line, r) ==
  [buffer |-> acc.buffer,
   rs |-> r.rs,
   writes |-> acc.writes \o r.writes,
   log |-> Append(acc.log, [line |-> line, before |-> acc.rs,
                            after |-> r.rs, writes |-> r.writes])]

\* lines.forEach
RECURSIVE ForEach(_, _, _)
ForEach(lines, show, acc) ==
  IF lines = <<>> THEN acc
  ELSE ForEach(Tail(lines), show,
               AfterLine(acc, Head(lines),
                         ProcessLine(Head(lines), acc.rs, show)))

\* buffer = lines.pop() || '', then lines.forEach
PopAndForEach(lines, rs, show) ==
  ForEach(SubSeq(lines, 1, Len(lines) - 1), show,
          [buffer |-> lines[Len(lines)], rs |-> rs, writes |-> <<>>,
           log |-> <<>>])

\* response.data.on('data') (server.js 526-580) applied to one chunk
HandleData(buf, rs, chunk, show) ==
  PopAndForEach(Split(buf \o ChunkToString(chunk)), rs, show)

RECURSIVE StreamOf(_)
StreamOf(lines) ==
  IF lines = <<>> THEN <<>>
  ELSE Head(lines) \o <<"\n">> \o StreamOf(Tail(lines))

\* a stream that ends inside a line: its last line has no separator
Truncated == StreamOf(<<LineRa>>) \o LineCc

Inputs ==
  {StreamOf([i \in DOMAIN q |-> Catalogue[q[i]]]) :
     q \in UNION {[1..n -> 1..Len(Catalogue)] : n \in 0..MaxLines}}
      \cup {StreamOf(q) : q \in Scenarios} \cup {Truncated}

----------------------------------------------------------------------------
(* The chat-completions handler up to the backend call (server.js 470-502) *)

MODEL_MAPPING ==
  JObj(<<
    Pair(<<"g","p","t","-","3",".","5","-","t","u","r","b","o">>,
         JStr(<<"d","e","e","p","s","e","e","k","-","a","i","/","d","e","e",
               "p","s","e","e","k","-","v","3">>)),
    Pair(<<"g","p","t","-","4">>,
         JStr(<<"d","e","e","p","s","e","e","k","-","a","i","/","d","e","e",
               "p","s","e","e","k","-","v","3",".","1">>)),
    Pair(<<"g","p","t","-","4","-","t","u","r","b","o">>,
         JStr(<<"m","o","o","n","s","h","o","t","a","i","/","k","i","m","i",
               "-","k","2","-","t","h","i","n","k","i","n","g">>)),
    Pair(<<"g","p","t","-","4","o">>,
         JStr(<<"d","e","e","p","s","e","e","k","-","a","i","/","d","e","e",
               "p","s","e","e","k","-","v","3",".","1">>)),
    Pair(<<"c","l","a","u","d","e","-","3","-","o","p","u","s">>,
         JStr(<<"n","v","i","d","i","a","/","l","l","a","m","a","-","3",".",
               "1","-","n","e","m","o","t","r","o","n","-","u","l","t","r",
               "a","-","2","5","3","b","-","v","1">>)),
    Pair(<<"c","l","a","u","d","e","-","3","-","s","o","n","n","e","t">>,
         JStr(<<"m","o","o","n","s","h","o","t","a","i","/","k","i","m","i",
               "-","k","2","-","i","n","s","t","r","u","c","t","-","0","9",
               "0","5">>)),
    Pair(<<"g","e","m","i","n","i","-","p","r","o">>,
         JStr(<<"q","w","e","n","/","q","w","e","n","3","-","n","e","x","t",
               "-","8","0","b","-","a","3","b","-","t","h","i","n","k","i",
               "n","g">>)) >>)

\* property names every object inherits from Object.prototype
NameConstructor == <<"c","o","n","s","t","r","u","c","t","o","r">>
InheritedNames == {NameConstructor, <<"t","o","S","t","r","i","n","g">>}

\* obj[k] for a plain object: own properties first, then the prototype
Lookup(obj, k) ==
  IF HasKey(obj, k) THEN Get(obj, k)
  ELSE IF k \in InheritedNames THEN JFunc
  ELSE Undefined

SmallModel == <<"m","e","t","a","/","l","l","a","m","a","-","3",".","1","-",
      "8","b","-","i","n","s","t","r","u","c","t">>

\* MODEL_MAPPING[model] || 'meta/llama-3.1-8b-instruct'
NimModel(model) ==
  LET mapped == Lookup(MODEL_MAPPING, Text(model))
  IN IF Truthy(mapped) THEN mapped ELSE JStr(SmallModel)

ENABLE_THINKING_MODE == TRUE

\* Math.min(max_tokens || 1024, 2048), max_tokens a number or absent
MaxTokens(max_tokens) ==
  JNum(Min(IF Truthy(max_tokens) THEN max_tokens.n ELSE 1024, 2048))


\* const nimRequest = ...; body.stream is the truthiness of the stream field
BuildRequest(body) ==
  [sent |-> TRUE,
   model |-> NimModel(body.model),
   messages |-> body.messages,
   temperature |-> IF Truthy(body.temperature) THEN body.temperature
                   ELSE JNum(7),   \* temperature || 0.7, in tenths
   top_p |-> 1,
   max_tokens |-> MaxTokens(body.max_tokens),
   thinking |-> ENABLE_THINKING_MODE,
   stream |-> body.stream]

\* no backend request made (yet)
NoRequest ==
  [sent |-> FALSE, model |-> Undefined, messages |-> Undefined,
   temperature |-> Undefined, top_p |-> 0, max_tokens |-> Undefined,
   thinking |-> FALSE, stream |-> FALSE]

----------------------------------------------------------------------------
(* Responses of the gateway (server.js 434-465 and 506-680) *)

KeyError == <<"e","r","r","o","r">>
KeyMessage == <<"m","e","s","s","a","g","e">>
KeyType == <<"t","y","p","e">>
KeyCode == <<"c","o","d","e">>
KeyRole == <<"r","o","l","e">>
KeyIndex == <<"i","n","d","e","x">>
KeyFinishReason == <<"f","i","n","i","s","h","_","r","e","a","s","o","n">>
KeyUsage == <<"u","s","a","g","e">>
KeyModel == <<"m","o","d","e","l">>
KeyObject == <<"o","b","j","e","c","t">>
TypeApi == <<"a","p","i","_","e","r","r","o","r">>
TypeTimeout == <<"t","i","m","e","o","u","t","_","e","r","r","o","r">>
TypeProxy == <<"p","r","o","x","y","_","e","r","r","o","r">>
TypeInvalidRequest == <<"i","n","v","a","l","i","d","_","r","e","q","u","e",
      "s","t","_","e","r","r","o","r">>
MsgNvidia == <<"N","V","I","D","I","A"," ","A","P","I"," ","e","r","r","o","r">>
TextAssistant == <<"a","s","s","i","s","t","a","n","t">>
TextStop == <<"s","t","o","p">>
TextCompletion == <<"c","h","a","t",".","c","o","m","p","l","e","t","i","o","n">>
CloseDelimLine == <<"\n","<","/","t","h","i","n","k",">","\n","\n">>
PathRoot == <<"/">>
PathHealth == <<"/","h","e","a","l","t","h">>
PathModels == <<"/","v","1","/","m","o","d","e","l","s">>
PathChat == <<"/","v","1","/","c","h","a","t","/","c","o","m","p","l","e","t","i","o","n","s">>
\* the client response: nothing sent yet, a JSON body sent with a status
\* (res.status(..).json(..)), the event stream set up, or the handler
\* returned without responding
\* sends counts the complete responses sent (res.json calls)
Waiting == [state |-> "waiting", status |-> 0, body |-> Undefined, sends |-> 0]
Json(code, body) ==
  [state |-> "json", status |-> code, body |-> body, sends |-> 1]
EventStream ==
  [state |-> "stream", status |-> 200, body |-> Undefined, sends |-> 0]
\* { error: { message, type, code } }
ErrorBody(message, type, code) ==
  JObj(<<Pair(KeyError,
              JObj(<<Pair(KeyMessage, JStr(message)),
                     Pair(KeyType, JStr(type)),
                     Pair(KeyCode, JNum(code))>>))>>)

\* validateStatus: (status) => status < 600
ValidateStatus(code) == code < 600

\* await axios.post(..) throws: no reply at all, or a reply whose status
\* validateStatus turns down
Rejected(up) == up.kind # "reply" \/ ~ValidateStatus(up.status)

\* the error axios.post throws: for a reply turned down it carries the
\* response, else the code and message of the transport failure
ErrorOf(up) ==
  IF up.kind = "reply"
  THEN [code |-> "ERR_BAD_RESPONSE",
        message |-> <<"R","e","q","u","e","s","t"," ","f","a","i","l","e","d",
              " ","w","i","t","h"," ","s","t","a","t","u","s"," ","c","o","d",
              "e"," ">> \o NumText(up.status),
        hasResponse |-> TRUE, status |-> up.status]
  ELSE [code |-> up.code, message |-> up.message,
        hasResponse |-> FALSE, status |-> 0]

\* a TypeError thrown inside the try block
TypeError(message) ==
  [code |-> "none", message |-> message, hasResponse |-> FALSE, status |-> 0]

\* errorStatus (653-657)
ErrorStatus(error) ==
  IF error.hasResponse /\ error.status # 0 THEN error.status ELSE 500

\* errorMessage (652-658)
ErrorMessage(error) ==
  IF error.hasResponse
  THEN MsgNvidia \o <<" ", "(">> \o NumText(ErrorStatus(error)) \o <<")">>
  ELSE IF error.message # <<>> THEN error.message
  ELSE <<"I","n","t","e","r","n","a","l"," ","s","e","r","v","e","r"," ","e","r","r","o","r">>

\* v || d and v?.k
Or(v, d) == IF Truthy(v) THEN v ELSE d
Optional(v, k) == IF v.t \in {"null", "undef"} THEN Undefined ELSE Get(v, k)

\* catch (error) (636-667)
Catch(error) ==
  IF error.code \in {"ECONNABORTED", "ETIMEDOUT"}
  THEN Json(504, ErrorBody(<<"R","e","q","u","e","s","t"," ","t","i","m","e",
        "d"," ","o","u","t">>, TypeTimeout, 504))
  ELSE Json(ErrorStatus(error),
            ErrorBody(ErrorMessage(error), TypeProxy, ErrorStatus(error)))


\* mutation: the regular content comes before the reasoning block
ContentFirst(message, show) ==
  IF show /\ Truthy(Optional(message, KeyReasoning))
  THEN JStr(Text(Or(Optional(message, KeyContent), JStr(<<>>)))
            \o OpenDelim \o Text(Optional(message, KeyReasoning))
            \o CloseDelimLine)
  ELSE Or(Optional(message, KeyContent), JStr(<<>>))

\* fullContent (610-614)
FullContent(message, show) ==
  IF show /\ Truthy(Optional(message, KeyReasoning))
  THEN JStr(OpenDelim \o Text(Optional(message, KeyReasoning))
            \o CloseDelimLine
            \o Text(Or(Optional(message, KeyContent), JStr(<<>>))))
  ELSE Or(Optional(message, KeyContent), JStr(<<>>))

\* mutation: the reasoning text stays in the message next to the content
MessageKeepsReasoning(message, show) ==
  JObj(<<Pair(KeyRole, Or(Optional(message, KeyRole), JStr(TextAssistant))),
         Pair(KeyContent, FullContent(message, show)),
         Pair(KeyReasoning, Optional(message, KeyReasoning))>>)

\* message: { role, content } (618-621)
OutMessage(message, show) ==
  JObj(<<Pair(KeyRole, Or(Optional(message, KeyRole), JStr(TextAssistant))),
         Pair(KeyContent, FullContent(message, show))>>)

\* the callback of choices.map (609-624)
NormalizeChoice(choice, show) ==
  JObj(<<Pair(KeyIndex, Or(Get(choice, KeyIndex), JNum(0))),
         Pair(KeyMessage, OutMessage(Get(choice, KeyMessage), show)),
         Pair(KeyFinishReason,
              Or(Get(choice, KeyFinishReason), JStr(TextStop)))>>)

ZeroUsage ==
  JObj(<<Pair(<<"p","r","o","m","p","t","_","t","o","k","e","n","s">>, JNum(0)),
         Pair(<<"c","o","m","p","l","e","t","i","o","n","_","t","o","k","e","n","s">>, JNum(0)),
         Pair(<<"t","o","t","a","l","_","t","o","k","e","n","s">>, JNum(0))>>)

\* openaiResponse (604-630), now being Date.now()
OpenaiResponse(data, model, show, now) ==
  JObj(<<Pair(<<"i","d">>, JStr(<<"c","h","a","t","c","m","p","l","-">> \o NumText(now))),
         Pair(KeyObject, JStr(TextCompletion)),
         Pair(<<"c","r","e","a","t","e","d">>, JNum(now \div 1000)),
         Pair(KeyModel, model),
         Pair(KeyChoices,
              JArr([i \in 1..Len(Get(data, KeyChoices).items) |->
                     NormalizeChoice(Get(data, KeyChoices).items[i], show)])),
         Pair(KeyUsage, Or(Get(data, KeyUsage), ZeroUsage))>>)

\* the non-streaming branch (592-634) with choices = response.data.choices:
\* map is not a function on anything but an array, the callback cannot read
\* .message of null, and the log line cannot read .message of choices[0]
\* when the array is empty; each of these throws into the catch block
\* mutation: res.json(openaiResponse) comes before the log line
JsonBeforeLog(r) == <<r>>

\* the responses already sent when the log line (632) throws: none,
\* res.json(openaiResponse) being the statement after it (633)
SentBeforeLog(r) == <<>>

NonStreamingWith(choices, data, model, show, now) ==
  IF ~Truthy(data) \/ ~Truthy(choices)
  \* 'Invalid response from NVIDIA' (593-602)
  THEN Json(500, ErrorBody(<<"I","n","v","a","l","i","d"," ","r","e","s","p",
        "o","n","s","e"," ","f","r","o","m"," ","N","V","I","D","I","A">>,
        TypeApi, 500))
  \* 'response.data.choices.map is not a function'
  ELSE IF choices.t # "arr" THEN Catch(TypeError(<<"r","e","s","p","o","n",
        "s","e",".","d","a","t","a",".","c","h","o","i","c","e","s",".","m",
        "a","p"," ","i","s"," ","n","o","t"," ","a"," ","f","u","n","c","t",
        "i","o","n">>))
  \* "Cannot read properties of null (reading 'message')"
  ELSE IF \E i \in 1..Len(choices.items) : choices.items[i].t = "null"
       THEN Catch(TypeError(<<"C","a","n","n","o","t"," ","r","e","a","d"," ",
             "p","r","o","p","e","r","t","i","e","s"," ","o","f"," ","n","u",
             "l","l"," ","(","r","e","a","d","i","n","g"," ","'","m","e","s",
             "s","a","g","e","'",")">>))
  \* "Cannot read properties of undefined (reading 'message')"
  ELSE IF choices.items = <<>>
       THEN LET sent == SentBeforeLog(Json(200, OpenaiResponse(data, model,
                                                               show, now)))
                caught == Catch(TypeError(<<"C","a","n","n","o","t"," ","r",
                  "e","a","d"," ","p","r","o","p","e","r","t","i","e","s",
                  " ","o","f"," ","u","n","d","e","f","i","n","e","d"," ",
                  "(","r","e","a","d","i","n","g"," ","'","m","e","s","s",
                  "a","g","e","'",")">>))
            \* the client has the first response sent; the catch block's
            \* res.json counts as one more
            IN IF sent = <<>> THEN caught
               ELSE [sent[1] EXCEPT !.sends = Len(sent) + caught.sends]
  ELSE Json(200, OpenaiResponse(data, model, show, now))

NonStreaming(data, model, show, now) ==
  NonStreamingWith(Get(data, KeyChoices), data, model, show, now)

\* the handler of POST /v1/chat/completions from the backend call on
\* (492-667): the response it gives, the event stream being only set up
Handler(body, up, show, now) ==
  IF Rejected(up) THEN Catch(ErrorOf(up))
  ELSE IF up.status # 200   \* (506-515)
       THEN Json(up.status, ErrorBody(MsgNvidia, TypeApi, up.status))
  ELSE IF body.stream THEN EventStream
  ELSE NonStreaming(up.data, body.model, show, now)

\* GET /health (443-450)
HealthBody(show) ==
  JObj(<<Pair(<<"s","t","a","t","u","s">>, JStr(<<"o","k">>)),
         Pair(<<"s","e","r","v","i","c","e">>, JStr(<<"O","p","e","n","A","I",
               " ","t","o"," ","N","V","I","D","I","A"," ","N","I","M"," ",
               "P","r","o","x","y">>)),
         Pair(<<"r","e","a","s","o","n","i","n","g","_","d","i","s","p","l","a","y">>, JBool(show)),
         Pair(<<"t","h","i","n","k","i","n","g","_","m","o","d","e">>,
               JBool(ENABLE_THINKING_MODE))>>)

\* GET /v1/models (453-465)
ModelsBody(now) ==
  JObj(<<Pair(KeyObject, JStr(<<"l","i","s","t">>)),
         Pair(<<"d","a","t","a">>,
              JArr([i \in 1..Len(MODEL_MAPPING.items) |->
                     JObj(<<Pair(<<"i","d">>, JStr(MODEL_MAPPING.items[i].s)),
                            Pair(KeyObject, JStr(<<"m","o","d","e","l">>)),
                            Pair(<<"c","r","e","a","t","e","d">>, JNum(now)),
                            Pair(<<"o","w","n","e","d","_","b","y">>,
                                  JStr(<<"n","v","i","d","i","a","-","n","i",
                                  "m","-","p","r","o","x","y">>))>>)]))>>)

\* the body of the catch-all route (673-679)
NotFound(path) ==
  Json(404, ErrorBody(<<"E","n","d","p","o","i","n","t"," ">> \o path
                        \o <<" ","n","o","t"," ","f","o","u","n","d">>,
                      TypeInvalidRequest, 404))

\* Express hands the request to the first route that matches; none of the
\* handlers passes it on
RouteOf(method, path) ==
  IF method = "GET" /\ path = PathRoot THEN "root"
  ELSE IF method = "GET" /\ path = PathHealth THEN "health"
  ELSE IF method = "GET" /\ path = PathModels THEN "models"
  ELSE IF method = "POST" /\ path = PathChat THEN "chat"
  ELSE "all"

----------------------------------------------------------------------------
(* Inbound requests and backend behaviours *)

\* req.body: the stream field is held as its truthiness
Body(model, temperature, max_tokens, stream) ==
  [model |-> model, messages |-> JArr(<<>>), temperature |-> temperature,
   max_tokens |-> max_tokens, stream |-> stream]

NameGpt4 == <<"g","p","t","-","4">>
NameUnknown == <<"g","p","t","-","5">>
KnownNames == {MODEL_MAPPING.items[i].s : i \in 1..Len(MODEL_MAPPING.items)}

\* the mapped names, names that are not mapped, and no name at all
ModelInputs ==
  {JStr(k) : k \in KnownNames \cup {NameUnknown, <<"G","P","T","-","4","-",
        "3","2","k">>, NameConstructor}}
    \cup {Undefined}

PlainBodies ==
  {Body(m, t, k, FALSE) :
     m \in ModelInputs, t \in {Undefined, JNum(0), JNum(12)},
           k \in ({Undefined} \cup {JNum(k) : k \in {-1, 0, 1, 10, 2048, 2049,
           5000}})}
StreamedBodies ==
  {Body(JStr(m), Undefined, Undefined, TRUE) : m \in {NameGpt4, NameUnknown}}

Request(method, path, body) == [method |-> method, path |-> path, body |-> body]

\* what the backend does with the one call made to it: a reply with a
\* status and a body (JSON in data, or the bytes of a stream), or a failure
\* of the transport with its code and message
Reply(code, data, bytes) ==
  [kind |-> "reply", status |-> code, data |-> data, bytes |-> bytes,
   code |-> "none", message |-> <<>>]
Failure(code, message) ==
  [kind |-> "failure", status |-> 0, data |-> Undefined, bytes |-> <<>>,
   code |-> code, message |-> message]

Failures ==
  {Failure("ECONNABORTED", <<"t","i","m","e","o","u","t"," ","o","f"," ","9",
        "0","0","0","0","m","s"," ","e","x","c","e","e","d","e","d">>),
   Failure("ETIMEDOUT", <<"c","o","n","n","e","c","t"," ","E","T","I","M","E","D","O","U","T">>),
   Failure("ECONNRESET", <<"s","o","c","k","e","t"," ","h","a","n","g"," ","u","p">>),
   Failure("none", <<>>)}

ErrorReplies == {Reply(c, d, <<>>) : c \in {201, 429, 503, 600},
      d \in {(JObj(<<Pair(KeyError, JObj(<<Pair(KeyMessage, JStr(<<"r","a",
      "t","e"," ","l","i","m","i","t","e","d">>))>>))>>)), JObj(<<>>)}}

\* messages and choices of backend bodies
MessageContent == JObj(<<Pair(KeyContent, JStr(<<"c">>))>>)
MessageBoth ==
  JObj(<<Pair(KeyContent, JStr(<<"c">>)), Pair(KeyReasoning, JStr(<<"a">>))>>)
Choice(message) == JObj(<<Pair(KeyMessage, message)>>)
WithChoices(choices) == JObj(<<Pair(KeyChoices, choices)>>)

\* bodies whose choices is a non-empty array of objects
WellFormed ==
  {WithChoices(JArr(<<Choice(m)>>)) :
     m \in {MessageContent, MessageBoth, (JObj(<<Pair(KeyReasoning, JStr(<<"a">>))>>)),
            (JObj(<<Pair(KeyReasoning, JStr(<<>>)), Pair(KeyContent,
                  JStr(<<"c">>))>>)), JObj(<<>>)}}
    \cup {WithChoices(JArr(<<JObj(<<>>)>>)),
          JObj(<<Pair(KeyChoices, JArr(<<Choice(MessageContent),
                (JObj(<<Pair(KeyIndex, JNum(1)), Pair(KeyMessage,
                (JObj(<<Pair(KeyRole, JStr(<<"u","s","e","r">>)),
                Pair(KeyReasoning, JStr(<<"a">>)), Pair(KeyContent,
                JStr(<<"c">>))>>))), Pair(KeyFinishReason, JStr(<<"l","e","n",
                "g","t","h">>))>>))>>)),
                 Pair(KeyUsage, (JObj(<<Pair(<<"p","r","o","m","p","t","_",
                       "t","o","k","e","n","s">>, JNum(1)), Pair(<<"c","o",
                       "m","p","l","e","t","i","o","n","_","t","o","k","e",
                       "n","s">>, JNum(2)), Pair(<<"t","o","t","a","l","_",
                       "t","o","k","e","n","s">>, JNum(3))>>)))>>)}

\* no body, no choices, choices that is no array, an empty array, and an
\* array holding null
Unusable ==
  {JStr(<<>>), JNull, JObj(<<>>), WithChoices(JNull),
   WithChoices(JStr(<<"a","b","c">>)), WithChoices(JObj(<<>>)),
   WithChoices(JArr(<<>>)), WithChoices(JArr(<<JNull>>))}

UpstreamsFor(body) ==
  IF body.stream
  THEN {Reply(200, Undefined, b) : b \in {StreamOf(<<LineRa, LineCc>>),
        StreamOf(<<LineCc>>) \o LineDone}}
         \cup {Reply(429, Undefined, <<>>), Reply(600, Undefined, <<>>)} \cup Failures
  ELSE {Reply(200, d, <<>>) : d \in WellFormed \cup Unusable}
         \cup ErrorReplies \cup Failures

\* values of Date.now()
Clock == {999, 1000}

\* the streamed request whose handler has set the stream up, as the request
\* behind the streams of Init
StreamedRequest == Request("POST", PathChat, Body(JStr(NameGpt4), Undefined, Undefined, TRUE))

----------------------------------------------------------------------------
(* State *)

VARIABLES
  showReasoning,     \* SHOW_REASONING, fixed at start-up
  status,            \* per request: "none", "open" (streaming), "ended"
  pending,           \* per request: backend bytes not yet delivered
  received,          \* per request: backend bytes delivered so far
  buffer,            \* per request: let buffer
  reasoningStarted,  \* per request: let reasoningStarted
  out,               \* per request: the texts written with res.write
  log,               \* per request: one entry per line given to lines.forEach
  alone,             \* per request: buffer, reasoningStarted and output of
                     \* the same chunks handled with no other request around
  req,               \* the inbound request: method, path and body
  upstream,          \* what the backend does with the call made for req
  nimRequest,        \* the request sent to the backend for req
  completed,         \* per request: how many times its response was completed
                     \* (res.json and res.end calls)
  res                \* the response given to req

reqVars == <<req, upstream, nimRequest, res>>

vars == <<showReasoning, status, pending, received, buffer, reasoningStarted,
          out, log, alone, req, upstream, nimRequest, completed, res>>

Fresh == [buffer |-> <<>>, rs |-> FALSE, out |-> <<>>]

InitWith(inputOf) ==
  /\ showReasoning \in BOOLEAN
  /\ status = [s \in Streams |-> IF inputOf[s] = "none" THEN "none" ELSE "open"]
  /\ pending = [s \in Streams |-> IF inputOf[s] = "none" THEN <<>> ELSE inputOf[s]]
  /\ received = [s \in Streams |-> <<>>]
  /\ buffer = [s \in Streams |-> <<>>]
  /\ reasoningStarted = [s \in Streams |-> FALSE]
  /\ out = [s \in Streams |-> <<>>]
  /\ log = [s \in Streams |-> <<>>]
  /\ alone = [s \in Streams |-> Fresh]
  /\ completed = [s \in Streams |-> 0]
  /\ req = StreamedRequest
  /\ upstream = Reply(200, Undefined, <<>>)
  /\ nimRequest = BuildRequest(StreamedRequest.body)
  /\ res = EventStream

\* one streamed request
Init == \E i \in Inputs : InitWith([s \in Streams |-> IF s = 1 THEN i ELSE "none"])

\* two streamed requests in progress at once
InitIso == \E f \in [Streams -> {StreamOf(<<LineRa, LineDone>>),
      StreamOf(<<LineCc, LineDone>>)}] : InitWith(f)

\* mutation: one buffer, that of request 1, serves every request
SharedBuffer(s) == buffer[1]

\* the buffer and splice state the 'data' callback of request s closes over
BufferOf(s) == buffer[s]

\* the chunk lengths the transport may deliver from p
ChunkLens(p) == (1..Min(MaxChunk, Len(p))) \cup {Len(p)}

\* what the callback of request s leaves behind, h being its result
Callback(s, h) ==
  /\ buffer' = [buffer EXCEPT ![s] = h.buffer]
  /\ reasoningStarted' = [reasoningStarted EXCEPT ![s] = h.rs]
  /\ out' = [out EXCEPT ![s] = @ \o h.writes]
  /\ log' = [log EXCEPT ![s] = @ \o h.log]

\* the same for the request handled alone
Replica(written, a) ==
  [buffer |-> a.buffer, rs |-> a.rs, out |-> written \o a.writes]

\* a 'data' event of request s
Data(s) ==
  /\ status[s] = "open"
  /\ pending[s] # <<>>
  /\ \E k \in ChunkLens(pending[s]) :
       /\ pending' = [pending EXCEPT ![s] = SubSeq(pending[s], k + 1, Len(pending[s]))]
       /\ received' = [received EXCEPT ![s] = @ \o SubSeq(pending[s], 1, k)]
       /\ Callback(s, HandleData(BufferOf(s), reasoningStarted[s],
                                 SubSeq(pending[s], 1, k), showReasoning))
       /\ alone' = [alone EXCEPT ![s] =
                      Replica(@.out, HandleData(@.buffer, @.rs,
                                                SubSeq(pending[s], 1, k),
                                                showReasoning))]
  /\ UNCHANGED <<showReasoning, status, completed>>
  /\ UNCHANGED reqVars

\* mutation: the 'end' event first writes what is left in the buffer
EndFlushes(s) ==
  /\ status[s] = "open"
  /\ pending[s] = <<>>
  /\ status' = [status EXCEPT ![s] = "ended"]
  /\ completed' = [completed EXCEPT ![s] = @ + 1]
  /\ out' = [out EXCEPT ![s] =
               IF buffer[s] = <<>> THEN @ ELSE Append(@, buffer[s] \o NLNL)]
  /\ UNCHANGED <<showReasoning, pending, received, buffer, reasoningStarted,
                 log, alone>>
  /\ UNCHANGED reqVars

\* the 'end' event of request s: res.end()
End(s) ==
  /\ status[s] = "open"
  /\ pending[s] = <<>>
  /\ status' = [status EXCEPT ![s] = "ended"]
  /\ completed' = [completed EXCEPT ![s] = @ + 1]
  /\ UNCHANGED <<showReasoning, pending, received, buffer, reasoningStarted,
                 out, log, alone>>
  /\ UNCHANGED reqVars

\* the 'error' event of request s: res.end()
StreamError(s) ==
  /\ status[s] = "open"
  /\ status' = [status EXCEPT ![s] = "ended"]
  /\ completed' = [completed EXCEPT ![s] = @ + 1]
  /\ UNCHANGED <<showReasoning, pending, received, buffer, reasoningStarted,
                 out, log, alone>>
  /\ UNCHANGED reqVars

Next == \E s \in Streams : Data(s) \/ End(s) \/ StreamError(s)

Spec == Init /\ [][Next]_vars
SpecIso == InitIso /\ [][Next]_vars

----------------------------------------------------------------------------
(* One inbound request from its arrival on *)

InitReq ==
  /\ showReasoning \in BOOLEAN
  /\ status = [s \in Streams |-> "none"]
  /\ pending = [s \in Streams |-> <<>>]
  /\ received = [s \in Streams |-> <<>>]
  /\ buffer = [s \in Streams |-> <<>>]
  /\ reasoningStarted = [s \in Streams |-> FALSE]
  /\ out = [s \in Streams |-> <<>>]
  /\ log = [s \in Streams |-> <<>>]
  /\ alone = [s \in Streams |-> Fresh]
  /\ completed = [s \in Streams |-> 0]
  /\ nimRequest = NoRequest
  /\ res = Waiting
  /\ \/ /\ req \in {Request(m, p, Body(Undefined, Undefined, Undefined, FALSE)) :
                      m \in {"GET", "POST", "DELETE"}, p \in {PathRoot,
                            PathHealth, PathModels, PathChat, <<"/","v","1",
                            "/","f","o","o">>}}
        /\ RouteOf(req.method, req.path) # "chat"
        /\ upstream = Reply(200, JNull, <<>>)
     \/ /\ req \in {Request("POST", PathChat, b) : b \in PlainBodies \cup StreamedBodies}
        /\ upstream \in UpstreamsFor(req.body)

streamVars == <<status, pending, received, buffer, reasoningStarted, out, log,
                alone>>

\* GET /
Root ==
  /\ res.state = "waiting"
  /\ RouteOf(req.method, req.path) = "root"
  /\ res' = Json(200, JObj(<<
        \* status: 'ok'
        Pair(<<"s","t","a","t","u","s">>, JStr(<<"o","k">>)),
        \* service: 'OpenAI to NVIDIA NIM Proxy'
        Pair(<<"s","e","r","v","i","c","e">>,
             JStr(<<"O","p","e","n","A","I"," ","t","o"," ","N","V","I","D",
                    "I","A"," ","N","I","M"," ","P","r","o","x","y">>)),
        \* message: 'Proxy is running. Use /v1/chat/completions endpoint.'
        Pair(KeyMessage,
             JStr(<<"P","r","o","x","y"," ","i","s"," ","r","u","n","n","i",
                    "n","g","."," ","U","s","e"," ","/","v","1","/","c","h",
                    "a","t","/","c","o","m","p","l","e","t","i","o","n","s",
                    " ","e","n","d","p","o","i","n","t",".">>))>>))
  /\ completed' = [completed EXCEPT ![1] = @ + res'.sends]
  /\ UNCHANGED <<showReasoning, streamVars, req, upstream, nimRequest>>

\* GET /health
Health ==
  /\ res.state = "waiting"
  /\ RouteOf(req.method, req.path) = "health"
  /\ res' = Json(200, HealthBody(showReasoning))
  /\ completed' = [completed EXCEPT ![1] = @ + res'.sends]
  /\ UNCHANGED <<showReasoning, streamVars, req, upstream, nimRequest>>

\* GET /v1/models
Models ==
  /\ res.state = "waiting"
  /\ RouteOf(req.method, req.path) = "models"
  /\ \E now \in Clock : res' = Json(200, ModelsBody(now))
  /\ completed' = [completed EXCEPT ![1] = @ + res'.sends]
  /\ UNCHANGED <<showReasoning, streamVars, req, upstream, nimRequest>>

\* what the handler leaves behind, r being its response: for an event
\* stream the callbacks are attached to the stream of the backend's reply
Respond(r) ==
  /\ res' = r
  /\ completed' = [completed EXCEPT ![1] = @ + r.sends]
  /\ status' = IF r.state = "stream" THEN [status EXCEPT ![1] = "open"] ELSE status
  /\ pending' = IF r.state = "stream" THEN [pending EXCEPT ![1] = upstream.bytes]
                ELSE pending

\* POST /v1/chat/completions
ChatCompletions ==
  /\ res.state = "waiting"
  /\ RouteOf(req.method, req.path) = "chat"
  /\ nimRequest' = BuildRequest(req.body)
  /\ \E now \in Clock : Respond(Handler(req.body, upstream, showReasoning, now))
  /\ UNCHANGED <<showReasoning, received, buffer, reasoningStarted, out, log,
                 alone, req, upstream>>

\* app.all('*'): reached by the requests no route above matches
CatchAll ==
  /\ res.state = "waiting"
  /\ RouteOf(req.method, req.path) = "all"
  /\ res' = IF req.path = PathRoot \/ req.path = PathHealth THEN [state |-> "unanswered", status |-> 0, body |-> Undefined,
                  sends |-> 0]
            ELSE NotFound(req.path)
  /\ completed' = [completed EXCEPT ![1] = @ + res'.sends]
  /\ UNCHANGED <<showReasoning, streamVars, req, upstream, nimRequest>>

NextReq == Root \/ Health \/ Models \/ ChatCompletions \/ CatchAll \/ Next

SpecReq == InitReq /\ [][NextReq]_vars

----------------------------------------------------------------------------
(* Properties *)

\* the lines given to per-line processing so far, in order
Handed(s) == [i \in 1..Len(log[s]) |-> log[s][i].line]

Separators(bytes) == {i \in 1..Len(bytes) : bytes[i] = "\n"}

\* C1: re-chunking invariance.  However the bytes received so far were cut
\* into chunks, the events written are those written when the same bytes
\* arrive as one single chunk on a fresh stream.
RechunkInvariance ==
  \A s \in Streams :
    out[s] = HandleData(<<>>, FALSE, received[s], showReasoning).writes

\* C2: line-buffer conservation.  The bytes received so far are exactly the
\* lines handed to per-line processing, each followed by its separator,
\* followed by the buffer; and no line is handed over before its separator
\* has been received.
LineBufferConservation ==
  \A s \in Streams :
    /\ ChunkToString(received[s]) = StreamOf(Handed(s)) \o buffer[s]
    /\ Len(log[s]) <= Cardinality(Separators(received[s]))

----------------------------------------------------------------------------
(* Reading the written events back *)

\* the JSON text of a written event: the marker and the blank-line
\* terminator taken off
PayloadOf(w) == SubSeq(w, 7, Len(w) - 2)

\* JSON.parse tabulated once for the payloads of the known lines and of
\* what is written for them
KnownTexts ==
  {Slice(l, 6) : l \in {k \in KnownLines : IsDataLine(k)}}
    \cup UNION {{PayloadOf(LineTable[l][rs][show].writes[i]) :
                   i \in 1..Len(LineTable[l][rs][show].writes)} :
                 l \in KnownLines, rs \in BOOLEAN, show \in BOOLEAN}
EventTable == [t \in KnownTexts |-> JSONparse(t)]
Parsed(t) == IF t \in KnownTexts THEN EventTable[t] ELSE JSONparse(t)

\* a log entry of a line the handler parsed with success and found a delta in
ParsedWithDelta(e) ==
  /\ StartsWith(e.line, Marker)
  /\ ~Includes(e.line, DoneText)
  /\ Parsed(Slice(e.line, 6)).ok
  /\ HasDelta(Parsed(Slice(e.line, 6)).v)

\* the delta that came in, and the delta that was written for it
InDelta(e) == DeltaOf(Parsed(Slice(e.line, 6)).v)
OutDelta(e) == DeltaOf(Parsed(PayloadOf(e.writes[1])).v)

Entries(s) == {log[s][i] : i \in 1..Len(log[s])}
SpliceEntries(s) == {e \in Entries(s) : ParsedWithDelta(e)}

\* all of stream q has been received by request s
ReceivedAll(s, q) == status[s] # "none" /\ received[s] = q /\ pending[s] = <<>>

\* the delta.content texts of the events written by request s, in order
RECURSIVE Concat(_)
Concat(ts) == IF ts = <<>> THEN <<>> ELSE Head(ts) \o Concat(Tail(ts))
ContentsOf(s) ==
  [i \in 1..Len(out[s]) |->
     Get(DeltaOf(Parsed(PayloadOf(out[s][i])).v), KeyContent).s]

----------------------------------------------------------------------------
(* C3, the splice state machine as the rule table reads.  has(f) says       *)
(* when field f of the incoming delta counts as present.                    *)

RuleText(d, before, hasR, hasC) ==
  LET r == Get(d, KeyReasoning).s
      c == Get(d, KeyContent).s
      first == IF hasR THEN (IF before THEN r ELSE OpenDelim \o r) ELSE <<>>
      mid == IF hasR THEN TRUE ELSE before
  IN IF hasC THEN first \o (IF mid THEN CloseDelim \o c ELSE c) ELSE first

RuleState(before, hasR, hasC) ==
  LET mid == IF hasR THEN TRUE ELSE before
  IN IF hasC THEN FALSE ELSE mid

FollowsRules(e, hasR, hasC) ==
  (hasR \/ hasC) =>
    /\ Get(OutDelta(e), KeyContent) = JStr(RuleText(InDelta(e), e.before, hasR, hasC))
    /\ e.after = RuleState(e.before, hasR, hasC)

\* C3 as claimed: with splicing enabled, every parsed event with a delta
\* follows the rule table, a field being present when the delta carries it.
SpliceRulesWhenPresent ==
  showReasoning =>
    \A s \in Streams : \A e \in SpliceEntries(s) :
      FollowsRules(e, HasKey(InDelta(e), KeyReasoning), HasKey(InDelta(e), KeyContent))

\* C3 amended: with splicing enabled, every parsed event with a delta
\* follows the rule table, a field being present when the delta carries it
\* with a non-empty text; an event with no such field leaves the splice
\* state as it is.
SpliceRulesWhenNonEmpty ==
  showReasoning =>
    \A s \in Streams : \A e \in SpliceEntries(s) :
      LET hasR == Truthy(Get(InDelta(e), KeyReasoning))
          hasC == Truthy(Get(InDelta(e), KeyContent))
      IN /\ FollowsRules(e, hasR, hasC)
         /\ (~hasR /\ ~hasC) => e.after = e.before

\* witness: after a reasoning event opened the block, an event carrying
\* both fields was spliced
SpliceRulesWitness ==
  /\ showReasoning
  /\ ReceivedAll(1, StreamOf(<<LineRa, LineBoth>>))
  /\ \E e \in SpliceEntries(1) : e.line = LineBoth /\ e.before /\ ~e.after

----------------------------------------------------------------------------
(* C4, the reasoning, reasoning, content stream with splicing enabled *)

RoundTripStream == StreamOf(<<LineRa, LineRb, LineCc>>)

\* C4 as claimed: the three contents concatenate to "<think>\na b</think>\n\nc"
RoundTripSpaced ==
  (showReasoning /\ ReceivedAll(1, RoundTripStream)) =>
    /\ Len(out[1]) = 3
    /\ Concat(ContentsOf(1)) = OpenDelim \o <<"a", " ", "b">> \o CloseDelim \o <<"c">>

\* C4 amended: the three contents concatenate to "<think>\nab</think>\n\nc",
\* the two reasoning texts adjoining with nothing between them
RoundTripExact ==
  (showReasoning /\ ReceivedAll(1, RoundTripStream)) =>
    /\ Len(out[1]) = 3
    /\ Concat(ContentsOf(1)) = OpenDelim \o <<"a", "b">> \o CloseDelim \o <<"c">>

RoundTripWitness ==
  /\ showReasoning
  /\ ReceivedAll(1, RoundTripStream)
  /\ Len(out[1]) = 3
  /\ ~reasoningStarted[1]

----------------------------------------------------------------------------
(* C5 and C6: what every written delta carries *)

ThinkOpen == <<"<", "t", "h", "i", "n", "k", ">">>
ThinkClose == <<"<", "/", "t", "h", "i", "n", "k", ">">>

\* C5: with splicing disabled, every written delta.content is the event's
\* own content text, or the empty text when it has none; the reasoning field
\* is gone; no delimiter is written; the splice state stays Idle; and the
\* reasoning, reasoning, content stream yields "", "", "c".
DisabledPlainContent ==
  ~showReasoning =>
    \A s \in Streams :
      /\ ~reasoningStarted[s]
      /\ \A i \in 1..Len(out[s]) :
           ~Includes(out[s][i], ThinkOpen) /\ ~Includes(out[s][i], ThinkClose)
      /\ \A e \in SpliceEntries(s) :
           /\ ~e.before /\ ~e.after
           /\ ~HasKey(OutDelta(e), KeyReasoning)
           /\ Get(OutDelta(e), KeyContent) =
                (IF HasKey(InDelta(e), KeyContent)
                 THEN Get(InDelta(e), KeyContent) ELSE JStr(<<>>))
      /\ ReceivedAll(s, RoundTripStream) =>
           ContentsOf(s) = << <<>>, <<>>, <<"c">> >>

DisabledWitness ==
  /\ ~showReasoning
  /\ ReceivedAll(1, RoundTripStream)
  /\ Len(out[1]) = 3
  /\ \E e \in SpliceEntries(1) : HasKey(InDelta(e), KeyReasoning)

\* C6: in both toggle positions, every event written for a parsed line
\* with a delta carries a delta.content holding a string and carries no
\* reasoning_content.
ContentKeyAlways ==
  \A s \in Streams : \A e \in SpliceEntries(s) :
    /\ HasKey(OutDelta(e), KeyContent)
    /\ Get(OutDelta(e), KeyContent).t = "str"
    /\ ~HasKey(OutDelta(e), KeyReasoning)

----------------------------------------------------------------------------
(* C7: a malformed data line *)

Malformed(e) ==
  /\ StartsWith(e.line, Marker)
  /\ ~Includes(e.line, DoneText)
  /\ ~Parsed(Slice(e.line, 6)).ok

\* the text after the last line separator
AfterLastSeparator(t) ==
  LET nl == Separators(t) IN
  IF nl = {} THEN t
  ELSE SubSeq(t, (CHOOSE i \in nl : \A j \in nl : j <= i) + 1, Len(t))

\* the entries of the data-carrying lines, in order
DataEntries(s) == SelectSeq(log[s], LAMBDA e : StartsWith(e.line, Marker))

FailOpenLog(s) ==
  /\ \A i \in 1..Len(log[s]) :
       /\ Malformed(log[s][i]) =>
            /\ log[s][i].writes = <<log[s][i].line \o NLNL>>
            /\ log[s][i].after = log[s][i].before
       \* the lines around it are translated from the state it left
       /\ log[s][i].before = (IF i = 1 THEN FALSE ELSE log[s][i - 1].after)
  /\ reasoningStarted[s] = (IF log[s] = <<>> THEN FALSE ELSE log[s][Len(log[s])].after)
  \* every data line went out, in order
  /\ Len(out[s]) = Len(DataEntries(s))
  /\ \A k \in 1..Len(out[s]) : DataEntries(s)[k].writes = <<out[s][k]>>

\* no byte of a multi-byte character has been received
SingleByteOnly(s) ==
  \A i \in 1..Len(received[s]) : received[s][i] \notin {LeadByte, ContByte}

\* C7: a malformed data line goes out verbatim, leaves the splice state and
\* the buffer alone (the buffer is still the unterminated end of what was
\* received) and leaves the stream open, and the data lines before and
\* after it are still translated and forwarded in order.
MalformedFailOpen ==
  /\ [](\A s \in Streams :
          /\ FailOpenLog(s)
          /\ SingleByteOnly(s) => buffer[s] = AfterLastSeparator(received[s]))
  /\ [][\A s \in Streams :
          received'[s] # received[s] => status'[s] = "open"]_vars

MalformedStream == StreamOf(<<LineRa, LineBad, LineCc>>)

MalformedWitness ==
  /\ showReasoning
  /\ ReceivedAll(1, MalformedStream)
  /\ status[1] = "open"
  /\ Len(out[1]) = 3
  /\ out[1][2] = LineBad \o NLNL
  /\ ContentsOf(1)[3] = CloseDelim \o <<"c">>

----------------------------------------------------------------------------
(* C8: the terminal marker *)

\* C8: only the line equal to the terminal marker goes out unparsed; every
\* other data line that is a valid event with a delta goes through the
\* splice, so a reasoning text in it is stripped and, with splicing enabled,
\* leaves the stream in reasoning unless content closes it.
OnlyTerminalMarkerBypasses ==
  \A s \in Streams : \A e \in Entries(s) :
    LET p == Parsed(Slice(e.line, 6)) IN
    /\ e.line = LineDone => e.writes = <<LineDone \o NLNL>>
    /\ (StartsWith(e.line, Marker) /\ e.line # LineDone /\ p.ok /\ HasDelta(p.v)
          /\ Truthy(Get(DeltaOf(p.v), KeyReasoning))) =>
         /\ ~HasKey(OutDelta(e), KeyReasoning)
         /\ (showReasoning /\ ~Truthy(Get(DeltaOf(p.v), KeyContent))) => e.after

----------------------------------------------------------------------------
(* C9: order and filtering *)

EndsWith(t, p) == Len(t) >= Len(p) /\ SubSeq(t, Len(t) - Len(p) + 1, Len(t)) = p

\* an event without the two text fields of its delta
Shell(v) ==
  IF HasDelta(v)
  THEN WithDelta(v, Delete(Delete(DeltaOf(v), KeyContent), KeyReasoning))
  ELSE v

\* the written text w stems from the line: it is the line itself, or the
\* line's event with nothing but the text fields of its delta changed and
\* the line's content text at the end of the written content
StemsFrom(w, line) ==
  \/ w = line \o NLNL
  \/ LET in == Parsed(Slice(line, 6))
         wr == Parsed(PayloadOf(w))
     IN /\ in.ok /\ wr.ok
        /\ StartsWith(w, Marker) /\ EndsWith(w, NLNL)
        /\ Shell(wr.v) = Shell(in.v)
        /\ (HasDelta(in.v) /\ Truthy(Get(DeltaOf(in.v), KeyContent))) =>
             EndsWith(Get(DeltaOf(wr.v), KeyContent).s,
                      Get(DeltaOf(in.v), KeyContent).s)

\* the completed lines of the bytes received, as bytes
CompletedLines(s) ==
  LET parts == Split(received[s]) IN SubSeq(parts, 1, Len(parts) - 1)

\* C9: the events written are, one for one and in order, the completed
\* backend lines that start with the marker; a completed line without the
\* marker writes nothing.
EventOrder ==
  \A s \in Streams :
    /\ Len(log[s]) = Len(CompletedLines(s))
    /\ \A i \in 1..Len(log[s]) :
         /\ StartsWith(log[s][i].line, Marker) = StartsWith(CompletedLines(s)[i], Marker)
         /\ SingleByteOnly(s) => log[s][i].line = CompletedLines(s)[i]
         /\ ~StartsWith(log[s][i].line, Marker) => log[s][i].writes = <<>>
    /\ Len(out[s]) = Len(DataEntries(s))
    /\ \A k \in 1..Len(out[s]) : StemsFrom(out[s][k], DataEntries(s)[k].line)

KeepAliveStream == StreamOf(<<LinePing, LineCc>>)

EventOrderWitness ==
  \/ /\ ReceivedAll(1, KeepAliveStream)
     /\ Len(log[1]) = 2 /\ Len(out[1]) = 1
  \/ /\ ReceivedAll(1, StreamOf(<<LineBlank, LineDone>>))
     /\ Len(log[1]) = 2 /\ out[1] = <<LineDone \o NLNL>>

----------------------------------------------------------------------------
(* C10: two requests at once *)

\* C10: whatever the interleaving of the chunk, end and error events of
\* the requests in progress, each request's buffer, splice state and output
\* are those of the same chunks handled with no other request around.
Isolation ==
  \A s \in Streams :
    /\ buffer[s] = alone[s].buffer
    /\ reasoningStarted[s] = alone[s].rs
    /\ out[s] = alone[s].out

IsolationWitness ==
  /\ showReasoning
  /\ status[1] = "open" /\ status[2] = "open"
  /\ buffer[1] # <<>> /\ buffer[2] # <<>> /\ buffer[1] # buffer[2]
  /\ reasoningStarted[1] /\ ~reasoningStarted[2]
  /\ out[1] # <<>>

----------------------------------------------------------------------------
(* Termination of a stream *)

\* C11: stream termination.  The step that ends a response, on the
\* backend's end-of-stream as on a transport error, writes nothing: what was
\* written stays as it is and what is still in the buffer is not forwarded;
\* and no step writes anything for a response that has ended.
TerminationWritesNothing ==
  [][\A s \in Streams :
       (status[s] = "ended" \/ status'[s] = "ended") => out'[s] = out[s]]_vars

\* the stream that stops inside a line has ended with that line still in the
\* buffer, after an event was written
TerminationWitness ==
  /\ status[1] = "ended"
  /\ received[1] = Truncated
  /\ pending[1] = <<>>
  /\ buffer[1] = LineCc
  /\ Len(out[1]) = 1

----------------------------------------------------------------------------
(* The request sent to the backend *)

\* the handler of the chat-completions route has run for req
Handled == RouteOf(req.method, req.path) = "chat" /\ res.state # "waiting"

\* C12: max_tokens clamp.  Whatever max_tokens the client sent (absent,
\* zero, negative or positive), the value sent to the backend is greater
\* than 0 and at most 2048: 1024 when absent, the smaller of the input and
\* 2048 when the input is positive.
MaxTokensInRange ==
  Handled =>
    /\ nimRequest.max_tokens.n > 0
    /\ nimRequest.max_tokens.n <= 2048
    /\ req.body.max_tokens.t = "undef" => nimRequest.max_tokens.n = 1024
    /\ (req.body.max_tokens.t = "num" /\ req.body.max_tokens.n > 0) =>
         nimRequest.max_tokens.n = Min(req.body.max_tokens.n, 2048)

\* the fallback for names of the large tier and the markers of that tier
LargeModel == <<"m","e","t","a","/","l","l","a","m","a","-","3",".","1","-",
      "7","0","b","-","i","n","s","t","r","u","c","t">>
LargeMarkers == {<<"g","p","t","-","4">>, <<"c","l","a","u","d","e","-","o","p","u","s">>}

UpperCase == <<"A","B","C","D","E","F","G","H","I","J","K","L","M","N","O",
      "P","Q","R","S","T","U","V","W","X","Y","Z">>
LowerCase == <<"a","b","c","d","e","f","g","h","i","j","k","l","m","n","o",
      "p","q","r","s","t","u","v","w","x","y","z">>
\* s.toLowerCase()
ToLowerCase(t) ==
  [i \in 1..Len(t) |->
     IF \E j \in 1..26 : UpperCase[j] = t[i]
     THEN LowerCase[CHOOSE j \in 1..26 : UpperCase[j] = t[i]]
     ELSE t[i]]

\* C13: model routing.  A name of the mapping table is routed to exactly the
\* identifier mapped to it; any other name is routed to the large fallback
\* when its lowercased form contains a marker of the large tier and to the
\* small fallback otherwise.
ModelRoutingTotal ==
  (Handled /\ req.body.model.t = "str") =>
    nimRequest.model =
      IF req.body.model.s \in KnownNames
      THEN Get(MODEL_MAPPING, req.body.model.s)
      ELSE IF \E m \in LargeMarkers : Includes(ToLowerCase(req.body.model.s), m)
           THEN JStr(LargeModel)
           ELSE JStr(SmallModel)

----------------------------------------------------------------------------
(* Error responses *)

\* the error object of a response body
ErrorIn(r) == Get(r.body, KeyError)

\* r is a JSON response whose body is { error: { message, type, code } }
\* with a type of the taxonomy and the code equal to the status of r
ErrorShape(r) ==
  /\ r.state = "json"
  /\ Get(ErrorIn(r), KeyMessage).t = "str"
  /\ Get(ErrorIn(r), KeyType) \in
       {JStr(TypeApi), JStr(TypeTimeout), JStr(TypeProxy), JStr(TypeInvalidRequest)}
  /\ Get(ErrorIn(r), KeyCode) = JNum(r.status)

\* r is the error response of the given status and type
IsError(r, code, type) ==
  /\ ErrorShape(r)
  /\ r.status = code
  /\ Get(ErrorIn(r), KeyType) = JStr(type)

\* the backend replied with a status outside 200..299
NonSuccess == upstream.kind = "reply" /\ (upstream.status < 200 \/ upstream.status > 299)

\* the backend call timed out or was aborted
TimedOut == upstream.kind = "failure" /\ upstream.code \in {"ECONNABORTED", "ETIMEDOUT"}

\* the error message in the backend's own body, if it has one
BackendMessage == Optional(Optional(upstream.data, KeyError), KeyMessage)

\* C14: backend error echo.  A backend reply with a non-2xx status gives the
\* client an error of that status, of type api_error, whose message is the
\* backend's own error message when its body has one and the generic text
\* otherwise.
BackendErrorEcho ==
  (Handled /\ NonSuccess) =>
    /\ IsError(res, upstream.status, TypeApi)
    /\ Get(ErrorIn(res), KeyMessage) =
         IF Truthy(BackendMessage) THEN BackendMessage ELSE JStr(MsgNvidia)

\* C15: classification order.  A timeout or abort gives timeout_error with
\* status 504; otherwise a backend reply with a non-2xx status gives
\* api_error with the backend's status; otherwise any other failure of the
\* call gives proxy_error with status 500.
ClassifiedInOrder ==
  Handled =>
    /\ TimedOut => IsError(res, 504, TypeTimeout)
    /\ NonSuccess => IsError(res, upstream.status, TypeApi)
    /\ (upstream.kind = "failure" /\ ~TimedOut) => IsError(res, 500, TypeProxy)

\* the backend replied 200 to a request that is not streamed
PlainReply == Handled /\ ~req.body.stream /\ upstream.kind = "reply" /\ upstream.status = 200

\* the body has nothing to normalize: no body, no choices, choices that is
\* no array, or an empty array
NothingToNormalize ==
  \/ ~Truthy(upstream.data)
  \/ Get(upstream.data, KeyChoices).t # "arr"
  \/ Get(upstream.data, KeyChoices).items = <<>>

\* the response is a normalized chat completion
Normalized ==
  /\ Handled
  /\ res.state = "json"
  /\ Get(res.body, KeyObject) = JStr(TextCompletion)

\* C16: non-streaming validation.  A backend body with nothing to normalize
\* gives the client an api_error and no chat completion; a chat completion
\* is given only for a non-empty array of choices.
InvalidPayloadIsApiError ==
  (PlainReply /\ NothingToNormalize) =>
    /\ ErrorShape(res)
    /\ Get(ErrorIn(res), KeyType) = JStr(TypeApi)
    /\ ~Normalized

\* the stream of the backend's reply failed before anything was written
FailedBeforeOutput ==
  /\ res.state = "stream"
  /\ status[1] = "ended"
  /\ pending[1] # <<>>
  /\ out[1] = <<>>

\* C17: error shape.  On every error path (a backend reply that is not a
\* success, an unusable backend body, a timeout, a stream that fails before
\* any output, any other failure, a request no route matches) the response
\* is JSON of the shape { error: { message, type, code } } with a type of the
\* taxonomy and the code equal to the status of the response.
ErrorShapeEverywhere ==
  /\ (res.state = "json" /\ res.status # 200) => ErrorShape(res)
  /\ (Handled /\ (NonSuccess \/ upstream.kind = "failure")) => ErrorShape(res)
  /\ (PlainReply /\ NothingToNormalize) => ErrorShape(res)
  /\ FailedBeforeOutput => ErrorShape(res)

\* C20: unknown routes.  A request that matches none of the four routes is
\* answered with status 404 and an error of type invalid_request_error with
\* code 404, once the catch-all handler has run.
UnroutedGets404 ==
  (RouteOf(req.method, req.path) = "all" /\ res.state # "waiting") =>
    IsError(res, 404, TypeInvalidRequest)

----------------------------------------------------------------------------
(* Non-streaming normalization *)

InChoices == Get(upstream.data, KeyChoices).items
OutChoices == Get(res.body, KeyChoices).items
InMessage(i) == Get(InChoices[i], KeyMessage)
OutMessageAt(i) == Get(OutChoices[i], KeyMessage)

\* the text of a field of the backend's message, empty when absent
FieldText(i, k) ==
  IF Optional(InMessage(i), k).t = "str" THEN Optional(InMessage(i), k).s ELSE <<>>

\* v when it is there, d otherwise
Default(v, d) == IF v.t = "undef" THEN d ELSE v

\* C18: non-streaming normalization.  For every choice of a normalized
\* response: with reasoning display on and a non-empty reasoning text, the
\* content is the opening delimiter, the reasoning text, the closing
\* delimiter and the regular content in that order; otherwise it is the
\* regular content, empty when absent.  The role defaults to assistant, the
\* finish reason to stop, the usage to zeroed counters, and the model field
\* is the name the client sent, not the backend identifier.
NormalizationRule ==
  Normalized =>
    /\ Len(OutChoices) = Len(InChoices)
    /\ \A i \in 1..Len(InChoices) :
         /\ Get(OutMessageAt(i), KeyContent) =
              JStr(IF showReasoning /\ FieldText(i, KeyReasoning) # <<>>
                   THEN OpenDelim \o FieldText(i, KeyReasoning) \o CloseDelimLine
                          \o FieldText(i, KeyContent)
                   ELSE FieldText(i, KeyContent))
         /\ Get(OutMessageAt(i), KeyRole) =
              Default(Optional(InMessage(i), KeyRole), JStr(TextAssistant))
         /\ Get(OutChoices[i], KeyFinishReason) =
              Default(Get(InChoices[i], KeyFinishReason), JStr(TextStop))
    /\ Get(res.body, KeyUsage) = Default(Get(upstream.data, KeyUsage), ZeroUsage)
    /\ Get(res.body, KeyModel) = req.body.model
    /\ Get(res.body, KeyModel) # nimRequest.model

\* a reply with reasoning and content has been normalized with reasoning
\* display on
NormalizationWitness ==
  /\ Normalized
  /\ showReasoning
  /\ upstream.data = WithChoices(JArr(<<Choice(MessageBoth)>>))
  /\ req.body.model = JStr(NameGpt4)
  /\ Get(OutMessageAt(1), KeyContent) =
       JStr(<<"<","t","h","i","n","k",">","\n","a","\n","<","/","t","h","i",
             "n","k",">","\n","\n","c">>)

\* the content of choice i of a JSON response
ContentAt(r, i) == Get(Get(Get(r.body, KeyChoices).items[i], KeyMessage), KeyContent)

\* C19: idempotence of the non-streaming normalization.  Normalizing a
\* normalized response again, as if it were a backend body and with either
\* position of the reasoning toggle, gives for every choice the content the
\* first normalization gave.
NormalizationIdempotent ==
  Normalized =>
    \A show \in BOOLEAN : \A now \in Clock : \A i \in 1..Len(OutChoices) :
      ContentAt(NonStreaming(res.body, req.body.model, show, now), i)
        = ContentAt(res, i)

\* a reply of two choices, one with reasoning, has been normalized with
\* reasoning display on
IdempotenceWitness ==
  /\ Normalized
  /\ showReasoning
  /\ Len(OutChoices) = 2
  /\ FieldText(2, KeyReasoning) = <<"a">>
  /\ ContentAt(res, 2) # ContentAt(res, 1)

----------------------------------------------------------------------------
(* C21: the balance of the delimiters written on one stream *)

\* where in a text a delimiter starts
PositionsOf(t, p) ==
  {i \in 1..(Len(t) - Len(p) + 1) : SubSeq(t, i, i + Len(p) - 1) = p}

\* opening delimiters minus closing ones among the first i characters
BalanceAt(opens, closes, i) ==
  Cardinality({j \in opens : j <= i}) - Cardinality({j \in closes : j <= i})

\* the balance is 0 or 1 after every delimiter, and in the end 1 exactly
\* when rs holds
Balanced(opens, closes, rs) ==
  /\ \A i \in opens \cup closes : BalanceAt(opens, closes, i) \in {0, 1}
  /\ Cardinality(opens) - Cardinality(closes) = (IF rs THEN 1 ELSE 0)

\* C21: with splicing enabled, in every state of a stream (open, ended or
\* failed) the opening delimiters written so far minus the closing ones
\* is 1 exactly when reasoningStarted holds and 0 exactly when it does not,
\* and after every delimiter in the written text that difference is 0 or 1:
\* no opening delimiter inside an open block, no closing one without an
\* unmatched opening one before it.
DelimiterBalance ==
  showReasoning =>
    \A s \in Streams :
      Balanced(PositionsOf(Concat(out[s]), ThinkOpen),
               PositionsOf(Concat(out[s]), ThinkClose),
               reasoningStarted[s])

\* witness: a stream that opened and closed a block in one event, opened a
\* second block and then ended with that block open
DelimiterBalanceWitness ==
  /\ showReasoning
  /\ status[1] = "ended"
  /\ received[1] = StreamOf(<<LineBoth, LineRa>>)
  /\ pending[1] = <<>>
  /\ reasoningStarted[1]
  /\ Cardinality(PositionsOf(Concat(out[1]), ThinkOpen)) = 2
  /\ Cardinality(PositionsOf(Concat(out[1]), ThinkClose)) = 1

----------------------------------------------------------------------------
(* C22: the response of a request is completed once *)

\* C22: in every step of a request and of its stream, whatever the backend
\* did (a reply with any status, chunks, 'end', a transport error, a failure
\* thrown inside the handler), the response has been completed at most once
\* afterwards (one JSON body or one end of the event stream, never both and
\* never twice), and once it is completed no further event is written and
\* the response given does not change.
CompletedOnce ==
  [][\A s \in Streams :
       /\ completed'[s] <= 1
       /\ completed[s] >= 1 => out'[s] = out[s]
       /\ (s = 1 /\ completed[s] >= 1) => res' = res
       /\ (s = 1 /\ res'.state = "json") =>
            (status'[s] = "none" /\ out'[s] = <<>>)]_vars

\* witness: a streamed request whose backend replied 200, delivered two
\* events and ended; both events were written and the response was ended
\* once
CompletedOnceWitness ==
  /\ RouteOf(req.method, req.path) = "chat"
  /\ res.state = "stream"
  /\ status[1] = "ended"
  /\ received[1] = StreamOf(<<LineRa, LineCc>>)
  /\ Len(out[1]) = 2
  /\ completed[1] = 1

====
